---- MODULE Spec2Model ----
(***************************************************************************)
(* Model of app.py, the Streamlit script of the Global Water Stress        *)
(* Tracker.  One run of the script is a straight line: load the two CSV    *)
(* tables, read the sidebar widgets, compute the two filtered views, then   *)
(* the four tabs in order.  An exception that no try/except of the script   *)
(* catches ends the run at the statement that raised it.                    *)
(*                                                                         *)
(* Strings whose characters the code inspects (len, isupper) are tuples of *)
(* one-character strings.  A timestamp is a month count year*12+(month-1): *)
(* the tables are monthly.  tws values are whole centimetres.              *)
(***************************************************************************)
EXTENDS Integers, Sequences, FiniteSets

VARIABLES
    data_source,            \* the sidebar radio: "auto" or "upload"
    histFile, fcFile,       \* the two sources as found on disk / uploaded
    pc,                     \* position of the script run
    df, forecast_df,        \* the loaded tables (or None)
    sidebar,                \* messages written to the sidebar
    notice,                 \* messages written to the main area
    selected_countries, date_range,
    filtered_df, full_date_filtered_df,
    map_view_date, latest_df, kpi, map_df,
    eda, deep_dive,
    forecast_filtered, combined_df, pivot_forecast,
    panel,                  \* what each tab has put on the page
    exception, failedAt     \* the exception that ended the run, and where

vars == <<data_source, histFile, fcFile, pc, df, forecast_df, sidebar, notice,
          selected_countries, date_range, filtered_df,
          full_date_filtered_df, map_view_date, latest_df, kpi, map_df, eda,
          deep_dive, forecast_filtered, combined_df, pivot_forecast, panel,
          exception, failedAt>>

-----------------------------------------------------------------------------
(* Bounds of the model *)

MaxRows == 3        \* rows of a generated historical table
MaxFRows == 2       \* rows of a generated forecast table

(* Program constants *)

drought_threshold == 0 - 5
LookbackMonths == 24

-----------------------------------------------------------------------------
(* Strings *)

Fiji == <<"F", "i", "j", "i">>
UK   == <<"U", "K">>
FJI  == <<"F", "J", "I">>
GBR  == <<"G", "B", "R">>
ZZZ  == <<"Z", "Z", "Z">>
Fji  == <<"f", "j", "i">>
NA   == <<"N", "/", "A">>
NoValue == <<>>

UpperChars == {"F", "J", "I", "G", "B", "R", "Z", "U", "K", "N", "A"}
LowerChars == {"i", "j", "f"}

\* str.isupper(): no lower-case character and at least one cased character.
isupper(s) ==
    /\ \E i \in 1..Len(s) : s[i] \in UpperChars
    /\ \A i \in 1..Len(s) : s[i] \notin LowerChars

-----------------------------------------------------------------------------
(* Sequences *)

Range(s) == {s[i] : i \in 1..Len(s)}

SeqsUpTo(S, n) == UNION {[1..k -> S] : k \in 0..n}

\* df[mask]: the rows whose mask entry is true, in table order.
RECURSIVE SelectFrom(_, _, _)
SelectFrom(rows, mask, i) ==
    IF i > Len(rows) THEN <<>>
    ELSE (IF mask[i] THEN <<rows[i]>> ELSE <<>>) \o SelectFrom(rows, mask, i + 1)

Select(rows, mask) == SelectFrom(rows, mask, 1)

SetMax(S) == CHOOSE x \in S : \A y \in S : y <= x
SetMin(S) == CHOOSE x \in S : \A y \in S : x <= y

-----------------------------------------------------------------------------
(* Tables *)

HistCols == {"country", "iso_a3", "date", "tws_mean_cm", "aqueduct_label",
             "aqueduct_wb_region"}
FcCols == {"country", "forecast_date", "predicted_tws"}

None == [isNone |-> TRUE, cols |-> {}, rows |-> <<>>]

\* pd.to_datetime on a year-month text.
to_datetime(ym) == ym[1] * 12 + (ym[2] - 1)

\* df[col] = pd.to_datetime(df[col]), when the column is there.
CoerceDate(rows, cols, col) ==
    IF col \in cols
    THEN [i \in 1..Len(rows) |-> [rows[i] EXCEPT ![col] = to_datetime(@)]]
    ELSE rows

\* pd.read_csv: raises on a 0-byte or malformed source; the rows get the
\* index 0..n-1.
read_csv(file) ==
    [raised |-> file.status # "ok",
     cols |-> file.cols,
     rows |-> [i \in 1..Len(file.rows) |->
                 [c \in (DOMAIN file.rows[i]) \cup {"idx"} |->
                     IF c = "idx" THEN i - 1 ELSE file.rows[i][c]]]]

\* load_data: the try/except turns every exception of the parse into None.
load_data_propagates(file) ==
    LET r == read_csv(file)
    IN  [raised |-> r.raised,
         value |-> [isNone |-> FALSE, cols |-> r.cols,
                    rows |-> CoerceDate(r.rows, r.cols, "date")]]

load_data(file) ==
    LET r == read_csv(file)
    IN  IF r.raised THEN [raised |-> FALSE, value |-> None]
        ELSE [raised |-> FALSE,
              value |-> [isNone |-> FALSE, cols |-> r.cols,
                         rows |-> CoerceDate(r.rows, r.cols, "date")]]

-----------------------------------------------------------------------------
(* The sources a run can find: the inputs of the model *)

D1 == <<2020, 1>>
D2 == <<2020, 2>>
D3 == <<2022, 2>>
FD1 == <<2022, 3>>
FD2 == <<2022, 4>>

HistRow(c, iso, d, v) ==
    [country |-> c, iso_a3 |-> iso, date |-> d, tws_mean_cm |-> v]

HistRowPool ==
    {HistRow(Fiji, FJI, D1, 10), HistRow(Fiji, FJI, D2, 0 - 6),
     HistRow(UK, GBR, D2, 2), HistRow(UK, GBR, D2, 0 - 6),
     HistRow(UK, GBR, D2, 0 - 5), HistRow(Fiji, FJI, D3, 2)}

\* The scenario table of the specification's section 8.
ScenarioRows ==
    <<HistRow(Fiji, FJI, D1, 10), HistRow(Fiji, FJI, D2, 0 - 6),
      HistRow(UK, GBR, D2, 2)>>

RecentRows ==
    <<HistRow(Fiji, FJI, D3, 2), HistRow(UK, GBR, D2, 0 - 5),
      HistRow(Fiji, FJI, D1, 10)>>

FcRow(c, d, v, n) ==
    [country |-> c, forecast_date |-> d, predicted_tws |-> v, country_name |-> n]

FcRowPool ==
    {FcRow(FJI, FD1, 0 - 7, NoValue), FcRow(FJI, FD1, 3, NoValue),
     FcRow(GBR, FD2, 3, NoValue), FcRow(Fiji, FD1, 3, NoValue),
     FcRow(ZZZ, FD1, 0 - 7, NoValue), FcRow(UK, FD2, 0 - 7, NoValue),
     FcRow(Fji, FD1, 3, NoValue)}

NamedFcRowPool ==
    {FcRow(FJI, FD1, 0 - 7, Fiji), FcRow(FJI, FD1, 3, UK),
     FcRow(Fiji, FD2, 3, FJI), FcRow(GBR, FD2, 3, UK)}

File(st, cols, rows) == [status |-> st, cols |-> cols, rows |-> rows]

MissingFile == File("missing", {}, <<>>)
EmptyFile == File("empty", {}, <<>>)
MalformedFile == File("malformed", {}, <<>>)
BadFiles == {MissingFile, EmptyFile, MalformedFile}

ColumnVariants ==
    {HistCols, HistCols \ {"aqueduct_wb_region"}, HistCols \ {"aqueduct_label"},
     HistCols \ {"aqueduct_label", "aqueduct_wb_region"}, HistCols \ {"iso_a3"}}

AllHistFiles == {File("ok", HistCols, r) : r \in SeqsUpTo(HistRowPool, MaxRows)}
FewHistFiles == {File("ok", c, ScenarioRows) : c \in ColumnVariants}
RecentHistFiles ==
    {File("ok", HistCols, RecentRows), File("ok", HistCols \ {"iso_a3"}, RecentRows)}

ScenarioFcFile ==
    File("ok", FcCols, <<FcRow(FJI, FD1, 0 - 7, NoValue), FcRow(GBR, FD1, 3, NoValue)>>)
AllFcFiles ==
    {File("ok", FcCols, r) : r \in SeqsUpTo(FcRowPool, MaxFRows)}
    \cup {File("ok", FcCols \cup {"country_name"}, r) :
              r \in SeqsUpTo(NamedFcRowPool, MaxFRows)}

-----------------------------------------------------------------------------
(* The state before the first statement of a run *)

Panels == {"tab1", "tab2", "tab3", "tab4"}
NoKpi == [set |-> FALSE]
NoEda == [set |-> FALSE]
NoDeepDive == [set |-> FALSE]
NoPivot == [set |-> FALSE]

Sources ==
    \/ /\ data_source \in {"auto", "upload"}
       /\ histFile \in BadFiles \cup FewHistFiles
       /\ fcFile \in BadFiles \cup {ScenarioFcFile}
    \/ /\ data_source = "auto"
       /\ histFile \in AllHistFiles
       /\ fcFile \in {MissingFile, ScenarioFcFile}
    \/ /\ data_source = "upload"
       /\ histFile \in RecentHistFiles
       /\ fcFile \in AllFcFiles

Init ==
    /\ Sources
    /\ pc = "load"
    /\ df = None
    /\ forecast_df = None
    /\ sidebar = {}
    /\ notice = {}
    /\ selected_countries = {}
    /\ date_range = <<>>
    /\ filtered_df = <<>>
    /\ full_date_filtered_df = <<>>
    /\ map_view_date = 0
    /\ latest_df = <<>>
    /\ kpi = NoKpi
    /\ map_df = <<>>
    /\ eda = NoEda
    /\ deep_dive = NoDeepDive
    /\ forecast_filtered = <<>>
    /\ combined_df = <<>>
    /\ pivot_forecast = NoPivot
    /\ panel = [p \in Panels |-> "pending"]
    /\ exception = "none"
    /\ failedAt = "none"

-----------------------------------------------------------------------------
(* Section 3 of the script: the two loads *)

Abort(where, what) ==
    /\ pc' = "aborted"
    /\ exception' = what
    /\ failedAt' = where

\* forecast_df['forecast_date'] = pd.to_datetime(...), guarded as in the code.
CoerceForecast(t) ==
    IF (~t.isNone) /\ "forecast_date" \in t.cols
    THEN [t EXCEPT !.rows = CoerceDate(@, t.cols, "forecast_date")]
    ELSE t

LoadMessages ==
    IF data_source = "auto"
    THEN {IF histFile.status # "missing" THEN "Historical Data Loaded"
          ELSE "Default file not found"}
         \cup {IF fcFile.status # "missing" THEN "Forecast Data Loaded"
               ELSE "Default forecast file not found."}
    ELSE {}

Load ==
    /\ pc = "load"
    /\ LET hExists == histFile.status # "missing"
           fExists == fcFile.status # "missing"
           h == load_data(histFile)
           f == load_data(fcFile)
           newdf == IF hExists THEN h.value ELSE None
           newfc == IF fExists THEN CoerceForecast(f.value) ELSE None
       IN  IF (hExists /\ h.raised) \/ (fExists /\ f.raised)
           THEN /\ Abort("load", "ParseError")
                /\ UNCHANGED <<df, forecast_df, sidebar, notice>>
           ELSE /\ df' = newdf
                /\ forecast_df' = newfc
                /\ sidebar' = LoadMessages
                /\ IF newdf.isNone
                   THEN /\ pc' = "done"
                        /\ notice' = {"Please load data to begin."}
                   ELSE /\ pc' = "sidebar"
                        /\ notice' = notice
                /\ UNCHANGED <<exception, failedAt>>
    /\ UNCHANGED <<data_source, histFile, fcFile, selected_countries, date_range,
                   filtered_df, full_date_filtered_df, map_view_date, latest_df,
                   kpi, map_df, eda, deep_dive, forecast_filtered, combined_df,
                   pivot_forecast, panel>>

-----------------------------------------------------------------------------
(* Section 4, the sidebar filters and the two filtered views *)

Column(rows, c) == {rows[i][c] : i \in 1..Len(rows)}

\* The positions of the two sliders: the months the tables of the model use.
MonthMarks == {to_datetime(d) : d \in {D1, D2, D3}}
DateChoices(rows) ==
    {m \in MonthMarks : SetMin(Column(rows, "date")) <= m
                         /\ m <= SetMax(Column(rows, "date"))}

mask_date(rows, range) ==
    [i \in 1..Len(rows) |-> rows[i].date >= range[1] /\ rows[i].date <= range[2]]

mask_country(rows, countries) ==
    [i \in 1..Len(rows) |-> rows[i].country \in countries]

MaskOr(m1, m2) == [i \in DOMAIN m1 |-> m1[i] \/ m2[i]]

MaskAnd(m1, m2) == [i \in DOMAIN m1 |-> m1[i] /\ m2[i]]

filtered_of(rows, countries, range) ==
    Select(rows, MaskAnd(mask_date(rows, range), mask_country(rows, countries)))

full_date_filtered_of(rows, range) == Select(rows, mask_date(rows, range))

SidebarFilters ==
    /\ pc = "sidebar"
    /\ IF df.rows = <<>>
       THEN \* min_date = df['date'].min().date() on an empty column: NaT
            /\ Abort("sidebar", "ValueError")
            /\ UNCHANGED <<selected_countries, date_range, filtered_df,
                           full_date_filtered_df>>
       ELSE /\ \E sel \in SUBSET Column(df.rows, "country") :
                  selected_countries' = sel
            /\ \E lo \in DateChoices(df.rows), hi \in DateChoices(df.rows) :
                  /\ lo <= hi
                  /\ date_range' = <<lo, hi>>
            /\ filtered_df' = filtered_of(df.rows, selected_countries', date_range')
            /\ full_date_filtered_df' = full_date_filtered_of(df.rows, date_range')
            /\ pc' = "tab1"
            /\ UNCHANGED <<exception, failedAt>>
    /\ UNCHANGED <<data_source, histFile, fcFile, df, forecast_df, sidebar, notice,
                   map_view_date, latest_df, kpi, map_df, eda, deep_dive,
                   forecast_filtered, combined_df, pivot_forecast, panel>>

-----------------------------------------------------------------------------
(* Tab 1, Overview *)

RECURSIVE SumOf(_, _)
SumOf(rows, c) == IF rows = <<>> THEN 0 ELSE Head(rows)[c] + SumOf(Tail(rows), c)

latest_of_min(rows) ==
    IF rows = <<>> THEN <<>>
    ELSE LET first_date == SetMin(Column(rows, "date"))
         IN  Select(rows, [i \in 1..Len(rows) |-> rows[i].date = first_date])

\* df[df['date'] == df['date'].max()]
latest_of(rows) ==
    IF rows = <<>> THEN <<>>
    ELSE LET latest_date == SetMax(Column(rows, "date"))
         IN  Select(rows, [i \in 1..Len(rows) |-> rows[i].date = latest_date])

\* latest_df[latest_df['tws_mean_cm'] < drought_threshold]
drought_countries_inclusive(latest) ==
    Select(latest, [i \in 1..Len(latest) |-> latest[i].tws_mean_cm <= drought_threshold])

drought_countries_of(latest) ==
    Select(latest, [i \in 1..Len(latest) |-> latest[i].tws_mean_cm < drought_threshold])

\* nsmallest(1, 'tws_mean_cm') with keep='first': a scan that replaces the
\* candidate only by a strictly smaller value.
RECURSIVE ScanMin(_, _, _)
ScanMin(rows, i, best) ==
    IF i > Len(rows) THEN best
    ELSE ScanMin(rows, i + 1,
                 IF rows[i].tws_mean_cm < rows[best].tws_mean_cm THEN i ELSE best)

RECURSIVE ScanMinLast(_, _, _)
ScanMinLast(rows, i, best) ==
    IF i > Len(rows) THEN best
    ELSE ScanMinLast(rows, i + 1,
                     IF rows[i].tws_mean_cm <= rows[best].tws_mean_cm THEN i ELSE best)

nsmallest1_last(rows) ==
    IF rows = <<>> THEN <<>> ELSE <<rows[ScanMinLast(rows, 2, 1)]>>

nsmallest1(rows) ==
    IF rows = <<>> THEN <<>> ELSE <<rows[ScanMin(rows, 2, 1)]>>

\* The four st.metric calls of the KPI row.
kpi_of(rows, latest) ==
    LET worst == IF latest # <<>> THEN nsmallest1(latest) ELSE <<>>
    IN  [set |-> TRUE,
         avg_sum |-> SumOf(latest, "tws_mean_cm"),
         avg_n |-> Len(latest),
         delta_color |-> IF latest # <<>> /\ SumOf(latest, "tws_mean_cm") > 0
                         THEN "normal" ELSE "inverse",
         deficit |-> Len(drought_countries_of(latest)),
         worst_hit |-> worst,
         col3 |-> IF worst # <<>> THEN worst[1].country ELSE NA,
         tracked |-> Cardinality(Column(rows, "country"))]

map_of(rows, month) == Select(rows, [i \in 1..Len(rows) |-> rows[i].date = month])

\* The columns px.choropleth and the risk table read.
MapCols == {"iso_a3", "tws_mean_cm", "country", "aqueduct_label"}

SetPanel(p, what) == panel' = [panel EXCEPT ![p] = what]

Tab1 ==
    /\ pc = "tab1"
    /\ latest_df' = latest_of(df.rows)
    /\ kpi' = kpi_of(df.rows, latest_df')
    /\ \E m \in DateChoices(df.rows) : map_view_date' = m
    /\ map_df' = map_of(df.rows, map_view_date')
    /\ IF map_df' # <<>> /\ ~(MapCols \subseteq df.cols)
       THEN /\ Abort("tab1", "ValueError")
            /\ SetPanel("tab1", "failed")
            /\ notice' = notice
       ELSE /\ pc' = "tab2"
            /\ SetPanel("tab1", "rendered")
            /\ notice' = IF map_df' = <<>>
                          THEN notice \cup {"No data available for this specific month."}
                          ELSE notice
            /\ UNCHANGED <<exception, failedAt>>
    /\ UNCHANGED <<data_source, histFile, fcFile, df, forecast_df, sidebar,
                   selected_countries, date_range, filtered_df,
                   full_date_filtered_df, eda, deep_dive, forecast_filtered,
                   combined_df, pivot_forecast>>

-----------------------------------------------------------------------------
(* Tab 2, Data Explorer *)

Content(r) == [c \in (DOMAIN r) \ {"idx"} |-> r[c]]

\* df.duplicated().sum(): the rows equal, in every column, to an earlier row.
duplicated_sum(rows) ==
    Cardinality({i \in 1..Len(rows) :
                    \E j \in 1..(i - 1) : Content(rows[j]) = Content(rows[i])})

Tab2 ==
    /\ pc = "tab2"
    /\ eda' = [set |-> TRUE, rows |-> Len(df.rows), columns |-> Cardinality(df.cols),
               dupes |-> duplicated_sum(df.rows)]
    /\ SetPanel("tab2", "rendered")
    /\ pc' = "tab3"
    /\ UNCHANGED <<data_source, histFile, fcFile, df, forecast_df, sidebar, notice,
                   selected_countries, date_range, filtered_df,
                   full_date_filtered_df, map_view_date, latest_df, kpi, map_df,
                   deep_dive, forecast_filtered, combined_df, pivot_forecast,
                   exception, failedAt>>

-----------------------------------------------------------------------------
(* Tab 3, Deep Dive *)

Year(t) == t \div 12

\* groupby(['country', 'Year'])['tws_mean_cm'].mean(), as sum and count.
heatmap_of(rows) ==
    {[country |-> k[1], Year |-> k[2],
      sum |-> SumOf(Select(rows, [i \in 1..Len(rows) |->
                  rows[i].country = k[1] /\ Year(rows[i].date) = k[2]]), "tws_mean_cm"),
      n |-> Cardinality({i \in 1..Len(rows) :
                  rows[i].country = k[1] /\ Year(rows[i].date) = k[2]})] :
        k \in {<<rows[i].country, Year(rows[i].date)>> : i \in 1..Len(rows)}}

region_box_of(cols) ==
    IF "aqueduct_wb_region" \in cols THEN "aqueduct_wb_region"
    ELSE IF "aqueduct_label" \in cols THEN "aqueduct_label"
    ELSE "skipped"

Tab3 ==
    /\ pc = "tab3"
    /\ deep_dive' =
          IF filtered_df # <<>>
          THEN [set |-> TRUE, line |-> TRUE, heatmap |-> heatmap_of(filtered_df),
                box |-> region_box_of(df.cols)]
          ELSE [set |-> TRUE, line |-> FALSE, heatmap |-> {}, box |-> "skipped"]
    /\ SetPanel("tab3", "rendered")
    /\ pc' = "tab4"
    /\ UNCHANGED <<data_source, histFile, fcFile, df, forecast_df, sidebar, notice,
                   selected_countries, date_range, filtered_df,
                   full_date_filtered_df, map_view_date, latest_df, kpi, map_df,
                   eda, forecast_filtered, combined_df, pivot_forecast,
                   exception, failedAt>>

-----------------------------------------------------------------------------
(* Tab 4, Forecasts *)

\* df[['iso_a3', 'country']].drop_duplicates().set_index('iso_a3')['country']
\* .to_dict(): of the distinct pairs of one code, the last one wins.
iso_map_of(rows) ==
    [code \in Column(rows, "iso_a3") |->
        LET firsts == {i \in 1..Len(rows) :
                          /\ rows[i].iso_a3 = code
                          /\ \A j \in 1..(i - 1) :
                                ~(rows[j].iso_a3 = code
                                  /\ rows[j].country = rows[i].country)}
        IN  rows[SetMax(firsts)].country]

\* .map(iso_map).fillna(forecast_df['country']) on one value.
map_fillna(iso_map, code) ==
    IF code \in DOMAIN iso_map THEN iso_map[code] ELSE code

\* The sniff test on the sample value.
looks_iso_len_only(sample_val) == Len(sample_val) = 3

looks_iso(sample_val) == Len(sample_val) = 3 /\ isupper(sample_val)

\* The sample is forecast_df['country'].iloc[0]: an IndexError on no rows.
resolve_raises(fc, hist) ==
    /\ "country_name" \notin fc.cols
    /\ "iso_a3" \in hist.cols
    /\ fc.rows = <<>>

resolve_always(fc, hist) ==
    LET iso_map == IF "iso_a3" \in hist.cols THEN iso_map_of(hist.rows) ELSE <<>>
        coded == fc.rows # <<>> /\ "iso_a3" \in hist.cols
                 /\ looks_iso(fc.rows[1].country)
    IN  [fc EXCEPT !.cols = @ \cup {"country_name"},
            !.rows = [i \in 1..Len(fc.rows) |->
                [fc.rows[i] EXCEPT !.country_name =
                    IF coded THEN map_fillna(iso_map, fc.rows[i].country)
                    ELSE fc.rows[i].country]]]

\* Lines 337-346: the country_name column of the forecast table.
resolve(fc, hist) ==
    IF "country_name" \notin fc.cols /\ "iso_a3" \in hist.cols
    THEN LET iso_map == iso_map_of(hist.rows)
         IN  IF looks_iso(fc.rows[1].country)
             THEN [fc EXCEPT !.cols = @ \cup {"country_name"},
                      !.rows = [i \in 1..Len(fc.rows) |->
                          [fc.rows[i] EXCEPT
                              !.country_name = map_fillna(iso_map, fc.rows[i].country)]]]
             ELSE [fc EXCEPT !.cols = @ \cup {"country_name"},
                      !.rows = [i \in 1..Len(fc.rows) |->
                          [fc.rows[i] EXCEPT !.country_name = fc.rows[i].country]]]
    ELSE IF "country_name" \notin fc.cols
    THEN [fc EXCEPT !.cols = @ \cup {"country_name"},
             !.rows = [i \in 1..Len(fc.rows) |->
                 [fc.rows[i] EXCEPT !.country_name = fc.rows[i].country]]]
    ELSE fc

\* forecast_df[forecast_df['country_name'].isin(selected_countries)]
forecast_filtered_of(rows, countries) ==
    Select(rows, [i \in 1..Len(rows) |-> rows[i].country_name \in countries])

\* The last 24 months of history of the selected countries, three columns.
recent_history_of(rows, countries) ==
    LET history_end_date == SetMax(Column(rows, "date"))
        lookback_date == history_end_date - LookbackMonths
        kept == Select(rows, [i \in 1..Len(rows) |->
                    rows[i].country \in countries /\ rows[i].date >= lookback_date])
    IN  [i \in 1..Len(kept) |->
            [country |-> kept[i].country, date |-> kept[i].date,
             tws_mean_cm |-> kept[i].tws_mean_cm, Type |-> "Historical"]]

forecast_plot_of(ff) ==
    [i \in 1..Len(ff) |->
        [country |-> ff[i].country_name, date |-> ff[i].forecast_date,
         tws_mean_cm |-> ff[i].predicted_tws, Type |-> "Forecast"]]

\* pd.concat([...], ignore_index=True)
concat(a, b) ==
    LET c == a \o b
    IN  [i \in 1..Len(c) |-> [k \in (DOMAIN c[i]) \cup {"idx"} |->
                                  IF k = "idx" THEN i - 1 ELSE c[i][k]]]

combined_of(rows, ff, countries) ==
    concat(recent_history_of(rows, countries), forecast_plot_of(ff))

\* DataFrame.pivot raises ValueError on a repeated (index, column) pair.
pivot_raises(ff) ==
    \E i, j \in 1..Len(ff) :
        /\ i < j
        /\ ff[i].country_name = ff[j].country_name
        /\ ff[i].forecast_date = ff[j].forecast_date

pivot_of(ff) ==
    [set |-> TRUE,
     index |-> Column(ff, "country_name"),
     columns |-> Column(ff, "forecast_date"),
     cells |-> {[country_name |-> ff[i].country_name,
                 forecast_date |-> ff[i].forecast_date,
                 predicted_tws |-> ff[i].predicted_tws] : i \in 1..Len(ff)}]

Tab4 ==
    /\ pc = "tab4"
    /\ IF forecast_df.isNone
       THEN /\ notice' = notice \cup {"No forecast file loaded."}
            /\ SetPanel("tab4", "placeholder")
            /\ pc' = "done"
            /\ UNCHANGED <<forecast_df, forecast_filtered, combined_df,
                           pivot_forecast, exception, failedAt>>
       ELSE IF resolve_raises(forecast_df, df)
       THEN /\ Abort("tab4", "IndexError")
            /\ SetPanel("tab4", "failed")
            /\ UNCHANGED <<forecast_df, forecast_filtered, combined_df,
                           pivot_forecast, notice>>
       ELSE /\ forecast_df' = resolve(forecast_df, df)
            /\ forecast_filtered' =
                  forecast_filtered_of(forecast_df'.rows, selected_countries)
            /\ IF forecast_filtered' = <<>>
               THEN /\ notice' = notice \cup {"No forecast data available for"}
                    /\ SetPanel("tab4", "placeholder")
                    /\ pc' = "done"
                    /\ UNCHANGED <<combined_df, pivot_forecast, exception, failedAt>>
               ELSE /\ combined_df' =
                          combined_of(df.rows, forecast_filtered', selected_countries)
                    /\ notice' = notice
                    /\ IF pivot_raises(forecast_filtered')
                       THEN /\ Abort("tab4", "ValueError")
                            /\ SetPanel("tab4", "failed")
                            /\ UNCHANGED pivot_forecast
                       ELSE /\ pivot_forecast' = pivot_of(forecast_filtered')
                            /\ SetPanel("tab4", "rendered")
                            /\ pc' = "done"
                            /\ UNCHANGED <<exception, failedAt>>
    /\ UNCHANGED <<data_source, histFile, fcFile, df, sidebar, selected_countries,
                   date_range, filtered_df, full_date_filtered_df, map_view_date,
                   latest_df, kpi, map_df, eda, deep_dive>>

-----------------------------------------------------------------------------

Next ==
    \/ Load
    \/ SidebarFilters
    \/ Tab1
    \/ Tab2
    \/ Tab3
    \/ Tab4

Spec == Init /\ [][Next]_vars

-----------------------------------------------------------------------------
(* Claims *)

Loaded == ~df.isNone
Finished == pc \in {"done", "aborted"}
FiltersApplied == Loaded /\ (pc \in {"tab1", "tab2", "tab3", "tab4"}
                             \/ (pc = "done") \/ failedAt \in Panels)
NoRepeat(s) == Len(s) = Cardinality(Range(s))

\* C1: a failure raised while computing one of the four panels is caught at
\* that panel and turned into a non-blocking message, and every other panel
\* still reaches its rendered (or placeholder) state.
C1_PanelFailureContained ==
    (Loaded /\ failedAt \in Panels) =>
        /\ pc # "aborted"
        /\ panel[failedAt] = "message"
        /\ Finished => \A q \in Panels \ {failedAt} :
                          panel[q] \in {"rendered", "placeholder"}

\* C2: when the filtered forecast rows hold two rows with the same
\* (country, forecast_date) pair, the pivot ends in a reported ambiguity
\* outcome: no cell value for the pair, and no unhandled exception.
C2_DuplicatePairReported ==
    (forecast_filtered # <<>> /\ pivot_raises(forecast_filtered)) =>
        /\ exception = "none"
        /\ pc # "aborted"
        /\ pivot_forecast = NoPivot

\* C3: filtered_df is a subset of full_date_filtered_df, which is a subset of
\* the table (by row identity); filtered_df is exactly the rows inside the
\* inclusive date interval whose country is selected; the loaded table is
\* the table as load_data returned it.
C3_FilterContainment ==
    FiltersApplied =>
        /\ Range(filtered_df) \subseteq Range(full_date_filtered_df)
        /\ Range(full_date_filtered_df) \subseteq Range(df.rows)
        /\ Range(filtered_df) =
              {r \in Range(df.rows) : /\ date_range[1] <= r.date
                                      /\ r.date <= date_range[2]
                                      /\ r.country \in selected_countries}
        /\ Range(full_date_filtered_df) =
              {r \in Range(df.rows) : date_range[1] <= r.date /\ r.date <= date_range[2]}
        /\ NoRepeat(filtered_df) /\ NoRepeat(full_date_filtered_df)
        /\ df.rows = CoerceDate(read_csv(histFile).rows, histFile.cols, "date")

C3_Witness ==
    /\ FiltersApplied
    /\ filtered_df # <<>>
    /\ Len(filtered_df) < Len(full_date_filtered_df)
    /\ Len(full_date_filtered_df) < Len(df.rows)

\* C4: in auto-load mode a missing historical path and an existing 0-byte or
\* malformed file both end with no table loaded; the first is reported as
\* "not found", the second is load_data returning None, no exception leaving
\* it, and the sidebar tells the two apart.
C4_LoadFailures ==
    (data_source = "auto" /\ pc # "load") =>
        /\ histFile.status = "missing" =>
              /\ df.isNone /\ pc = "done" /\ exception = "none"
              /\ "Default file not found" \in sidebar
        /\ histFile.status \in {"empty", "malformed"} =>
              /\ df.isNone /\ pc = "done" /\ exception = "none"
              /\ "Default file not found" \notin sidebar
              /\ notice = {"Please load data to begin."}

C4_Witness ==
    /\ data_source = "auto"
    /\ pc = "done"
    /\ histFile.status = "empty"
    /\ df.isNone
    /\ "Default file not found" \notin sidebar

\* C5: resolving a forecast table that already has a country_name column
\* (as loaded, or as left by an earlier resolution) changes no country_name.
C5_ResolveIdempotent ==
    ((~forecast_df.isNone) /\ "country_name" \in forecast_df.cols) =>
        /\ resolve(forecast_df, df) = forecast_df
        /\ "country_name" \in fcFile.cols =>
              \A i \in 1..Len(fcFile.rows) :
                  forecast_df.rows[i].country_name = fcFile.rows[i].country_name

C5_Witness ==
    /\ pc = "done"
    /\ panel["tab4"] = "rendered"
    /\ "country_name" \in fcFile.cols
    /\ \E i \in 1..Len(forecast_df.rows) :
          /\ forecast_df.rows[i].country = FJI
          /\ forecast_df.rows[i].country_name = UK

\* C6: in a non-empty latest snapshot the worst-hit row has a tws_mean_cm no
\* greater than any row's, and of the rows at the minimum it is the first in
\* table order; for an empty snapshot no row is selected and N/A is shown.
C6_WorstHit ==
    Loaded =>
        LET latest == latest_of(df.rows)
            k == kpi_of(df.rows, latest)
        IN  /\ kpi.set => kpi.worst_hit = k.worst_hit /\ kpi.col3 = k.col3
            /\ latest = <<>> => k.worst_hit = <<>> /\ k.col3 = NA
            /\ latest # <<>> =>
                  /\ Len(k.worst_hit) = 1
                  /\ k.worst_hit[1] \in Range(latest)
                  /\ k.col3 = k.worst_hit[1].country
                  /\ \A r \in Range(latest) :
                        /\ k.worst_hit[1].tws_mean_cm <= r.tws_mean_cm
                        /\ r.tws_mean_cm = k.worst_hit[1].tws_mean_cm
                              => k.worst_hit[1].idx <= r.idx

C6_Witness ==
    /\ kpi.set
    /\ Len(kpi.worst_hit) = 1
    /\ \E r \in Range(latest_df) :
          r.tws_mean_cm = kpi.worst_hit[1].tws_mean_cm /\ r.idx > kpi.worst_hit[1].idx
    /\ \E r \in Range(latest_df) : r.tws_mean_cm > kpi.worst_hit[1].tws_mean_cm

\* C7: the latest snapshot holds exactly the rows whose date is the maximum
\* date of the whole loaded table, whatever the country and date filters
\* are, and it is empty if and only if the table is empty.
C7_LatestSnapshot ==
    Loaded =>
        LET latest == latest_of(df.rows)
        IN  /\ kpi.set => latest_df = latest
            /\ Range(latest) =
                  {r \in Range(df.rows) : \A q \in Range(df.rows) : q.date <= r.date}
            /\ NoRepeat(latest)
            /\ (latest = <<>>) <=> (df.rows = <<>>)

C7_Witness ==
    /\ kpi.set
    /\ Len(latest_df) >= 2
    /\ Len(latest_df) < Len(df.rows)
    /\ filtered_df = <<>>

\* C8: the deficit count is the number of latest-snapshot rows whose
\* tws_mean_cm is strictly below -5; for the scenario table the count is 1
\* and the worst-hit row is the first country with -6.
C8_DeficitCount ==
    kpi.set =>
        /\ kpi.deficit =
              Cardinality({r \in Range(latest_df) : r.tws_mean_cm < 0 - 5})
        /\ histFile.rows = ScenarioRows =>
              /\ kpi.deficit = 1
              /\ kpi.col3 = Fiji
              /\ kpi.worst_hit[1].tws_mean_cm = 0 - 6

C8_Witness ==
    /\ kpi.set
    /\ histFile.rows = ScenarioRows
    /\ kpi.deficit = 1

\* C9: the combined series is exactly the selected countries' historical
\* rows of the trailing 24 months tagged Historical and all filtered
\* forecast rows tagged Forecast, and within each country its rows are in
\* non-decreasing date order.
C9_CombinedSeriesOrdered ==
    combined_df # <<>> =>
        /\ {Content(r) : r \in Range(combined_df)} =
              {[country |-> r.country, date |-> r.date,
                tws_mean_cm |-> r.tws_mean_cm, Type |-> "Historical"] :
                  r \in {q \in Range(df.rows) :
                            /\ q.country \in selected_countries
                            /\ \A x \in Range(df.rows) : q.date >= x.date - 24}}
              \cup {[country |-> f.country_name, date |-> f.forecast_date,
                      tws_mean_cm |-> f.predicted_tws, Type |-> "Forecast"] :
                        f \in Range(forecast_filtered)}
        /\ \A i, j \in 1..Len(combined_df) :
              (i < j /\ combined_df[i].country = combined_df[j].country)
                  => combined_df[i].date <= combined_df[j].date

AllUpper3(s) == Len(s) = 3 /\ \A i \in 1..Len(s) : s[i] \in UpperChars

Matches(code) ==
    IF "iso_a3" \in df.cols
    THEN {r.country : r \in {q \in Range(df.rows) : q.iso_a3 = code}}
    ELSE {}

====
